---- MODULE Spec2Model ----
(***************************************************************************)
(* A model of three files of Apache Superset:                              *)
(*   superset/config.py               the configuration module: its        *)
(*                                    environment-derived settings, the    *)
(*                                    version files, the upload directory  *)
(*                                    and the override hook at its end;    *)
(*   superset/db_engine_specs/impala.py  ImpalaEngineSpec: handle_cursor,  *)
(*                                    get_cancel_query_id, cancel_query,   *)
(*                                    the time-grain table;                *)
(*   superset/db_engine_specs/mssql.py   MssqlEngineSpec and               *)
(*                                    AzureSynapseSpec: the time-grain     *)
(*                                    table, the error messages and the    *)
(*                                    connection errors.                   *)
(* Names (of settings, feature flags and environment variables) are tuples *)
(* of one-character strings, so that str.isupper, str.startswith, slicing  *)
(* and the regular expressions of the code are computed on characters.     *)
(***************************************************************************)
EXTENDS Integers, Sequences, FiniteSets, TLC

VARIABLES
    environ,          \* os.environ: a function from variable names to values
    override_conf,    \* the override module's namespace (file or superset_config)
    override_all,     \* the override module's __all__, or NoAll
    override_raises,  \* executing the override module raises
    importable,       \* importlib.util.find_spec("superset_config") finds a module
    cfg,              \* the namespace of the module superset.config
    cfg_pc,           \* where the load of superset.config is
    feature_flags,    \* the effective feature flags of the application
    files,            \* the files config.py reads: a function from paths to contents
    db_poll_interval, \* app.config["DB_POLL_INTERVAL_SECONDS"]
    db_query,         \* the Query row as committed in the metadata database
    hc_pc,            \* where handle_cursor is
    status,           \* handle_cursor's local: the last cursor.status()
    query,            \* handle_cursor's local: the Query object of the session
    progress,         \* handle_cursor's local: <<>> while unbound, <<p>> once bound
    calls,            \* the calls handle_cursor has made, in order
    hc_exception,     \* the exception handle_cursor's except clause caught
    es_call,          \* the method or function called last, with its arguments
    es_result,        \* what that call returned
    es_posted         \* the HTTP requests that call sent

cfg_vars == <<environ, override_conf, override_all, override_raises, importable,
              cfg, cfg_pc, feature_flags, files>>

hc_vars == <<db_poll_interval, db_query, hc_pc, status, query, progress, calls,
             hc_exception>>

es_vars == <<es_call, es_result, es_posted>>

vars == <<cfg_vars, hc_vars, es_vars>>

(***************************************************************************)
(* Characters and strings                                                  *)
(***************************************************************************)
UpperChars ==
    {"A","B","C","D","E","F","G","H","I","J","K","L","M",
     "N","O","P","Q","R","S","T","U","V","W","X","Y","Z"}

LowerChars ==
    {"a","b","c","d","e","f","g","h","i","j","k","l","m",
     "n","o","p","q","r","s","t","u","v","w","x","y","z"}

DigitChars == {"0","1","2","3","4","5","6","7","8","9"}

\* \w of the re module on str patterns (ASCII part)
WordChars == UpperChars \cup LowerChars \cup DigitChars \cup {"_"}

\* str.isupper: at least one cased character and no lower-case one
isupper(s) ==
    /\ \E i \in 1..Len(s) : s[i] \in UpperChars
    /\ \A i \in 1..Len(s) : s[i] \notin LowerChars

startswith(s, p) ==
    /\ Len(s) >= Len(p)
    /\ SubSeq(s, 1, Len(p)) = p

Digits == <<"0","1","2","3","4","5","6","7","8","9">>

\* str(n) of a natural number
RECURSIVE str(_)
str(n) ==
    IF n < 10 THEN <<Digits[n + 1]>>
    ELSE str(n \div 10) \o <<Digits[(n % 10) + 1]>>

\* int(s) of a string of digits
RECURSIVE int(_)
int(s) ==
    IF s = <<>> THEN 0
    ELSE 10 * int(SubSeq(s, 1, Len(s) - 1))
            + (CHOOSE d \in 0..9 : Digits[d + 1] = s[Len(s)])

\* the empty dict
EmptyDict == <<>>

\* Python values of the settings: a scalar (written as a string) or a dict
pyval(s) == [scalar |-> s, dict |-> EmptyDict]

pydict(d) == [scalar |-> "dict", dict |-> d]

\* None
pynone == [scalar |-> "NoneType", dict |-> EmptyDict]

\* dict.update: the keys of e are set in d, the other keys of d are kept
DictUpdate(d, e) ==
    [k \in DOMAIN d \cup DOMAIN e |-> IF k \in DOMAIN e THEN e[k] ELSE d[k]]

(***************************************************************************)
(* Names                                                                   *)
(***************************************************************************)
SUPERSET_FEATURE_ ==
    <<"S","U","P","E","R","S","E","T","_","F","E","A","T","U","R","E","_">>

CONFIG_PATH_ENV_VAR ==
    <<"S","U","P","E","R","S","E","T","_","C","O","N","F","I","G","_","P","A","T","H">>

ROW_LIMIT == <<"R","O","W","_","L","I","M","I","T">>

FEATURE_FLAGS == <<"F","E","A","T","U","R","E","_","F","L","A","G","S">>

DEFAULT_FEATURE_FLAGS ==
    <<"D","E","F","A","U","L","T","_","F","E","A","T","U","R","E","_","F","L","A","G","S">>

SECRET_KEY == <<"S","E","C","R","E","T","_","K","E","Y">>

SUPERSET_SECRET_KEY ==
    <<"S","U","P","E","R","S","E","T","_","S","E","C","R","E","T","_","K","E",
      "Y">>

TALISMAN_ENABLED ==
    <<"T","A","L","I","S","M","A","N","_","E","N","A","B","L","E","D">>

VERSION_STRING ==
    <<"V","E","R","S","I","O","N","_","S","T","R","I","N","G">>

superset_config ==
    <<"s","u","p","e","r","s","e","t","_","c","o","n","f","i","g">>

\* feature flags: two of config.py's built-in ones, and the three of its comment
THUMBNAILS == <<"T","H","U","M","B","N","A","I","L","S">>

DRILL_BY == <<"D","R","I","L","L","_","B","Y">>

FOO == <<"F","O","O">>

BAR == <<"B","A","R">>

BAZ == <<"B","A","Z">>

\* names an override module may define beside the settings of config.py
MY_SETTING == <<"M","Y","_","S","E","T","T","I","N","G">>

helper == <<"h","e","l","p","e","r">>

PRIVATE_ == <<"_","P","R","I","V","A","T","E">>

(***************************************************************************)
(* Bounds and inputs                                                       *)
(***************************************************************************)
\* at most this many environment variables are set
MaxEnvVars == 2

\* at most this many names are defined by the override module
MaxOverrideNames == 2

\* a module's __all__: absent, or a list of names
NoAll == [defined |-> FALSE, names |-> {}]

AllOf(names) == [defined |-> TRUE, names |-> names]

\* environment variable names: three that name a flag, the bare prefix, a
\* prefix followed by a non-word character, a suffix with a non-word character
\* after a word character, a name that only contains the prefix
FeatureEnvKeys ==
    { SUPERSET_FEATURE_ \o THUMBNAILS,
      SUPERSET_FEATURE_ \o DRILL_BY,
      SUPERSET_FEATURE_ \o BAZ,
      SUPERSET_FEATURE_,
      SUPERSET_FEATURE_ \o <<"-","X">>,
      SUPERSET_FEATURE_ \o <<"A","-","B">>,
      <<"X">> \o SUPERSET_FEATURE_ \o FOO }

EnvKeys == FeatureEnvKeys \cup {CONFIG_PATH_ENV_VAR}

EnvValues(k) ==
    IF k = CONFIG_PATH_ENV_VAR THEN {"/app/superset_config.py"}
    ELSE {"True", "0"}

Environs ==
    UNION { { e \in [K -> {"/app/superset_config.py", "True", "0"}] :
                \A k \in K : e[k] \in EnvValues(k) } :
            K \in { K \in SUBSET EnvKeys : Cardinality(K) <= MaxEnvVars } }

OverrideNames ==
    {ROW_LIMIT, FEATURE_FLAGS, DEFAULT_FEATURE_FLAGS, MY_SETTING, helper, PRIVATE_}

OverrideValues(n) ==
    IF n = ROW_LIMIT THEN {pyval("7")}
    ELSE IF n = FEATURE_FLAGS
        THEN { pydict((BAR :> TRUE) @@ (BAZ :> TRUE)), pydict(THUMBNAILS :> TRUE) }
    ELSE IF n = DEFAULT_FEATURE_FLAGS
        THEN { pydict((FOO :> TRUE) @@ (BAR :> FALSE)) }
    ELSE IF n = MY_SETTING THEN {pyval("mine")}
    ELSE IF n = helper THEN {pyval("function")}
    ELSE {pyval("private")}

AllOverrideValues == UNION { OverrideValues(n) : n \in OverrideNames }

OverrideModules ==
    UNION { { m \in [N -> AllOverrideValues] :
                \A n \in N : m[n] \in OverrideValues(n) } :
            N \in { N \in SUBSET OverrideNames : Cardinality(N) <= MaxOverrideNames } }

(***************************************************************************)
(* superset/config.py                                                      *)
(***************************************************************************)
\* superset.utils.core.parse_boolean_string
parse_boolean_string(v) ==
    LET lower == IF v = "True" THEN "true" ELSE v
    IN  lower \in {"y", "yes", "t", "true", "on", "1"}

\* the pattern with \w* in place of \w+
FeatureEnvMatch_Star(k) == startswith(k, SUPERSET_FEATURE_)

\* re.search(r"^SUPERSET_FEATURE_\w+", k): the prefix at the start of k,
\* followed by at least one word character
FeatureEnvMatch(k) ==
    /\ startswith(k, SUPERSET_FEATURE_)
    /\ Len(k) > Len(SUPERSET_FEATURE_)
    /\ k[Len(SUPERSET_FEATURE_) + 1] \in WordChars

\* k[len("SUPERSET_FEATURE_"):]
FeatureEnvFlag(k) == SubSeq(k, Len(SUPERSET_FEATURE_) + 1, Len(k))

\* the dict comprehension over os.environ.items()
EnvFeatureFlags(env) ==
    LET keys == { k \in DOMAIN env : FeatureEnvMatch(k) }
    IN  [f \in { FeatureEnvFlag(k) : k \in keys } |->
            LET k == CHOOSE k \in keys : FeatureEnvFlag(k) = f
            IN  parse_boolean_string(env[k])]

\* the literal DEFAULT_FEATURE_FLAGS = {...} (two of its entries)
BuiltinFeatureFlags == (THUMBNAILS :> FALSE) @@ (DRILL_BY :> TRUE)

\* superset.constants.CHANGE_ME_SECRET_KEY
CHANGE_ME_SECRET_KEY == "CHANGE_ME_TO_A_COMPLEX_RANDOM_SECRET"

\* a lookup with the placeholder as the default of os.environ.get
secret_key_GetDefault(env) ==
    IF SUPERSET_SECRET_KEY \in DOMAIN env THEN env[SUPERSET_SECRET_KEY]
    ELSE CHANGE_ME_SECRET_KEY

\* os.environ.get("SUPERSET_SECRET_KEY") or CHANGE_ME_SECRET_KEY
secret_key(env) ==
    IF SUPERSET_SECRET_KEY \in DOMAIN env /\ env[SUPERSET_SECRET_KEY] # ""
    THEN env[SUPERSET_SECRET_KEY]
    ELSE CHANGE_ME_SECRET_KEY

\* True and False
pybool(b) == pyval(IF b THEN "True" ELSE "False")

\* superset.utils.core.cast_to_boolean, of a string
cast_to_boolean(v) ==
    LET lower == IF v = "True" THEN "true" ELSE v
    IN  lower = "true"

\* utils.cast_to_boolean(os.environ.get("TALISMAN_ENABLED", True))
talisman_enabled_from_env(env) ==
    IF TALISMAN_ENABLED \in DOMAIN env THEN cast_to_boolean(env[TALISMAN_ENABLED])
    ELSE TRUE

\* the assignments of config.py before the override hook, but for
\* VERSION_STRING; TALISMAN_ENABLED is assigned twice, the second time False
ConfigDefaults(env) ==
    DictUpdate(
        (ROW_LIMIT :> pyval("50000"))
        @@ (DEFAULT_FEATURE_FLAGS :>
                pydict(DictUpdate(BuiltinFeatureFlags, EnvFeatureFlags(env))))
        @@ (FEATURE_FLAGS :> pydict(EmptyDict))
        @@ (SECRET_KEY :> pyval(secret_key(env)))
        @@ (TALISMAN_ENABLED :> pybool(talisman_enabled_from_env(env))),
        (TALISMAN_ENABLED :> pybool(FALSE)))

VERSION_INFO_FILE == "static/version_info.json"

PACKAGE_JSON_FILE == "static/assets/package.json"

\* what a file holds: nothing (it is missing or unreadable), text that is no
\* JSON, JSON that is no object, or an object whose "version" is absent or
\* null (None), empty, or a version
FileContents(version) ==
    { [kind |-> k, version |-> pynone] :
        k \in {"missing", "malformed", "not_object", "object"} }
      \cup { [kind |-> "object", version |-> pyval(v)] : v \in {"", version} }

FileSystems ==
    { (VERSION_INFO_FILE :> a) @@ (PACKAGE_JSON_FILE :> b) :
        a \in FileContents("4.1.0"), b \in FileContents("0.0.0-dev") }

\* the files of an installed Superset
InstalledFiles ==
    (VERSION_INFO_FILE :> [kind |-> "object", version |-> pyval("4.1.0")])
    @@ (PACKAGE_JSON_FILE :> [kind |-> "object", version |-> pyval("0.0.0-dev")])

\* the truth value of None, of a string
truthy(v) == v # pynone /\ v # pyval("")

\* a reader without the except clause: open, json.load and .get raise
_try_json_readversion_NoExcept(fs, filepath) ==
    IF fs[filepath].kind = "object"
    THEN [raised |-> FALSE, value |-> fs[filepath].version]
    ELSE [raised |-> TRUE, value |-> pynone]

\* try: with open(filepath) as f: return json.load(f).get("version")
\* except Exception: return None
_try_json_readversion(fs, filepath) ==
    IF fs[filepath].kind = "object"
    THEN [raised |-> FALSE, value |-> fs[filepath].version]
    ELSE [raised |-> FALSE, value |-> pynone]

\* _try_json_readversion(VERSION_INFO_FILE) or _try_json_readversion(PACKAGE_JSON_FILE)
version_string(fs) ==
    LET first == _try_json_readversion(fs, VERSION_INFO_FILE)
    IN  IF first.raised \/ truthy(first.value) THEN first
        ELSE _try_json_readversion(fs, PACKAGE_JSON_FILE)

\* a copy that sets only the names the module does not have yet
SetUpperAttrs_KeepExisting(ns, mod) ==
    DictUpdate([n \in { n \in DOMAIN mod : isupper(n) } |-> mod[n]], ns)

\* for key in dir(override_conf): if key.isupper(): setattr(module, key, ...)
SetUpperAttrs(ns, mod) ==
    DictUpdate(ns, [n \in { n \in DOMAIN mod : isupper(n) } |-> mod[n]])

\* the names "from m import *" binds: __all__ when m defines it, otherwise
\* every name that does not begin with an underscore
StarNames(mod, all) ==
    IF all.defined THEN all.names
    ELSE { n \in DOMAIN mod : ~startswith(n, <<"_">>) }

\* an import that binds only the names config.py has not assigned
ImportStar_KeepExisting(ns, mod, all) ==
    DictUpdate(DictUpdate(ns, superset_config :> pyval("module")),
               [n \in StarNames(mod, all) \ DOMAIN ns |-> mod[n]])

\* import superset_config; from superset_config import *
ImportStar(ns, mod, all) ==
    DictUpdate(DictUpdate(ns, superset_config :> pyval("module")),
               [n \in StarNames(mod, all) |-> mod[n]])

StartConfig ==
    /\ environ \in Environs
    /\ override_raises \in BOOLEAN
    /\ importable \in BOOLEAN
    /\ override_conf \in OverrideModules
    /\ override_all \in {NoAll} \cup
          { AllOf(A) : A \in { A \in SUBSET DOMAIN override_conf :
                                      Cardinality(A) <= 1 } }
    \* one state for each behaviour: a module that is not loaded, or that
    \* raises, has no contents to tell apart
    /\ (CONFIG_PATH_ENV_VAR \in DOMAIN environ) => ~importable
    /\ (CONFIG_PATH_ENV_VAR \notin DOMAIN environ /\ ~importable)
          => (~override_raises /\ override_conf = EmptyDict)
    /\ override_raises => override_conf = EmptyDict
    /\ (CONFIG_PATH_ENV_VAR \in DOMAIN environ \/ override_conf = EmptyDict)
          => override_all = NoAll
    /\ cfg = EmptyDict
    /\ cfg_pc = "start"
    /\ feature_flags = EmptyDict
    /\ files = InstalledFiles

\* environments and override modules that set the secret key and Talisman
SettingsEnvKeys == {SUPERSET_SECRET_KEY, TALISMAN_ENABLED, CONFIG_PATH_ENV_VAR}

SettingsEnvValues(k) ==
    IF k = SUPERSET_SECRET_KEY THEN {"", "s3cret"}
    ELSE IF k = TALISMAN_ENABLED THEN {"True", "false", "1"}
    ELSE {"/app/superset_config.py"}

SettingsEnvirons ==
    UNION { { e \in [K -> UNION { SettingsEnvValues(k) : k \in SettingsEnvKeys }] :
                \A k \in K : e[k] \in SettingsEnvValues(k) } :
            K \in SUBSET SettingsEnvKeys }

SettingsOverrideValue(n) ==
    IF n = SECRET_KEY THEN pyval("overridden") ELSE pybool(TRUE)

SettingsOverrideModules ==
    { [n \in N |-> SettingsOverrideValue(n)] :
        N \in SUBSET {SECRET_KEY, TALISMAN_ENABLED} }

\* the states before superset.config is imported, for those settings and
\* for every state of the two version files
StartSettings ==
    /\ environ \in SettingsEnvirons
    /\ override_raises \in BOOLEAN
    /\ importable \in BOOLEAN
    /\ override_conf \in SettingsOverrideModules
    /\ override_all \in {NoAll} \cup
          { AllOf(A) : A \in { A \in SUBSET DOMAIN override_conf :
                                      Cardinality(A) <= 1 } }
    /\ (CONFIG_PATH_ENV_VAR \in DOMAIN environ) => ~importable
    /\ (CONFIG_PATH_ENV_VAR \notin DOMAIN environ /\ ~importable)
          => (~override_raises /\ override_conf = EmptyDict)
    /\ override_raises => override_conf = EmptyDict
    /\ (CONFIG_PATH_ENV_VAR \in DOMAIN environ \/ override_conf = EmptyDict)
          => override_all = NoAll
    /\ cfg = EmptyDict
    /\ cfg_pc = "start"
    /\ feature_flags = EmptyDict
    /\ files \in FileSystems

\* config.py down to the override hook; an exception that leaves
\* _try_json_readversion ends the import
BuildDefaults ==
    /\ cfg_pc = "start"
    /\ IF version_string(files).raised
       THEN /\ cfg' = cfg
            /\ cfg_pc' = "failed"
       ELSE /\ cfg' = DictUpdate(ConfigDefaults(environ),
                                 VERSION_STRING :> version_string(files).value)
            /\ cfg_pc' = "defaults"
    /\ UNCHANGED <<environ, override_conf, override_all, override_raises,
                   importable, feature_flags, files, hc_vars, es_vars>>

\* if CONFIG_PATH_ENV_VAR in os.environ: load the file, copy its upper-case names
LoadFromConfigPath ==
    /\ cfg_pc = "defaults"
    /\ CONFIG_PATH_ENV_VAR \in DOMAIN environ
    /\ IF override_raises
       THEN /\ cfg_pc' = "failed"
            /\ cfg' = cfg
       ELSE /\ cfg_pc' = "loaded"
            /\ cfg' = SetUpperAttrs(cfg, override_conf)
    /\ UNCHANGED <<environ, override_conf, override_all, override_raises,
                   importable, feature_flags, files, hc_vars, es_vars>>

\* elif importlib.util.find_spec("superset_config"): from superset_config import *
ImportSupersetConfig ==
    /\ cfg_pc = "defaults"
    /\ CONFIG_PATH_ENV_VAR \notin DOMAIN environ
    /\ importable
    /\ IF override_raises
       THEN /\ cfg_pc' = "failed"
            /\ cfg' = cfg
       ELSE /\ cfg_pc' = "loaded"
            /\ cfg' = ImportStar(cfg, override_conf, override_all)
    /\ UNCHANGED <<environ, override_conf, override_all, override_raises,
                   importable, feature_flags, files, hc_vars, es_vars>>

\* neither branch of the hook is taken
NoOverride ==
    /\ cfg_pc = "defaults"
    /\ CONFIG_PATH_ENV_VAR \notin DOMAIN environ
    /\ ~importable
    /\ cfg_pc' = "loaded"
    /\ UNCHANGED <<environ, override_conf, override_all, override_raises,
                   importable, cfg, feature_flags, files, hc_vars, es_vars>>

\* the application merges FEATURE_FLAGS into DEFAULT_FEATURE_FLAGS
InitFeatureFlags ==
    /\ cfg_pc = "loaded"
    /\ feature_flags' = DictUpdate(cfg[DEFAULT_FEATURE_FLAGS].dict, cfg[FEATURE_FLAGS].dict)
    /\ cfg_pc' = "app"
    /\ UNCHANGED <<environ, override_conf, override_all, override_raises,
                   importable, cfg, files, hc_vars, es_vars>>

NextConfig ==
    \/ BuildDefaults
    \/ LoadFromConfigPath
    \/ ImportSupersetConfig
    \/ NoOverride
    \/ InitFeatureFlags

(***************************************************************************)
(* superset/db_engine_specs/impala.py: ImpalaEngineSpec.handle_cursor      *)
(***************************************************************************)
\* at most this many calls of cursor.status() in one handle_cursor
MaxPolls == 3

\* the percentages a progress line of the log may report
Percentages == {20, 50}

\* the progress of the stored query when handle_cursor is called
InitialProgress == {0, 50}

unfinished_states == {"INITIALIZED_STATE", "RUNNING_STATE"}

\* what cursor.status() returns: the unfinished states and two others
CursorStates == unfinished_states \cup {"FINISHED_STATE", "ERROR_STATE"}

\* cls.engine
engine == "impala"

\* values of the setting DB_POLL_INTERVAL_SECONDS
PollIntervalConfigs == { EmptyDict, "impala" :> 1, "presto" :> 2 }

\* the logs cursor.get_log() returns: the line of impala.py's comment with
\* each percentage, a line with two percentages, two lines, a line that has
\* the progress after other text, and lines without a percentage
Logs ==
    { <<"Q","u","e","r","y"," ","5","5","4","3","f","f","d","f","6","9","2",
        "b","7","d","0","2",":","f","7","8","a","9","4","4","0","0","0","0",
        "0","0","0","0","0",":"," ">>
        \o str(p) \o
      <<"%"," ","C","o","m","p","l","e","t","e"," ","(","1","7"," ","o","u",
        "t"," ","o","f"," ","5","4","7",")">> :
        p \in Percentages }
    \cup
    { <<"Q","u","e","r","y"," ","1",":"," ","5","0","%"," ","o","f"," ","s",
        "t","a","g","e"," ","2",":"," ","2","0","%"," ","C","o","m","p","l",
        "e","t","e">>,
      <<"Q","u","e","r","y"," ","1",":"," ","5","0","%"," ","C","o","m","p",
        "l","e","t","e","\n","Q","u","e","r","y"," ","1",":"," ","2","0","%",
        " ","C","o","m","p","l","e","t","e">>,
      <<"I","N","F","O"," ","Q","u","e","r","y"," ","1",":"," ","5","0","%",
        " ","C","o","m","p","l","e","t","e">>,
      <<"Q","u","e","r","y"," ","1"," ","s","u","b","m","i","t","t","e","d">>,
      <<"Q","u","e","r","y"," ","1",":"," ","%"," ","C","o","m","p","l","e",
        "t","e">> }

\* QUERY_PROGRESS_REGEX.match(log).groupdict()["query_progress"] for
\* r"Query.*: (?P<query_progress>[0-9]+)%", or <<>> when there is no match:
\* "Query" begins the log, ".*" takes as much of the line as it can before
\* ": ", digits and "%"
QUERY_PROGRESS_REGEX(log) ==
    LET ends(c) == { e \in (c + 2)..(Len(log) - 1) :
                        /\ \A k \in (c + 2)..e : log[k] \in DigitChars
                        /\ log[e + 1] = "%" }
        colons == { c \in 6..(Len(log) - 3) :
                        /\ \A k \in 6..(c - 1) : log[k] # "\n"
                        /\ log[c] = ":"
                        /\ log[c + 1] = " "
                        /\ ends(c) # {} }
    IN  IF ~startswith(log, <<"Q","u","e","r","y">>) \/ colons = {} THEN <<>>
        ELSE LET c == CHOOSE c \in colons : \A d \in colons : d <= c
                 e == CHOOSE e \in ends(c) : TRUE
             IN  SubSeq(log, c + 2, e)

\* what cursor.get_log() does: it raises, returns None or "", returns a text
\* QUERY_PROGRESS_REGEX does not match, or a text it matches with a percentage
GetLogOutcomes ==
    { [kind |-> k, pct |-> 0] : k \in {"raises", "empty"} }
      \cup { IF QUERY_PROGRESS_REGEX(log) = <<>>
             THEN [kind |-> "text", pct |-> 0]
             ELSE [kind |-> "progress", pct |-> int(QUERY_PROGRESS_REGEX(log))] :
             log \in Logs }

Call(op) == [op |-> op, result |-> "", secs |-> 0]

StatusCall(result) == [op |-> "status", result |-> result, secs |-> 0]

SleepCall(secs) == [op |-> "sleep", result |-> "", secs |-> secs]

NumCalls(cs, op) == Cardinality({ i \in DOMAIN cs : cs[i].op = op })

\* a sleep that does not look at the setting
sleep_interval_Fixed(conf) == 5

\* app.config["DB_POLL_INTERVAL_SECONDS"].get(cls.engine, 5)
sleep_interval(conf) == IF engine \in DOMAIN conf THEN conf[engine] ELSE 5

\* a loop that goes on only while the query runs
while_condition_RunningOnly(st) == st = "RUNNING_STATE"

\* while status in unfinished_states
while_condition(st) == st \in unfinished_states

\* a body that keeps the Query object it was called with
fresh_query_Stale(session_query, stored) == session_query

\* db.session.refresh(query); query = db.session.query(Query).filter_by(...).one():
\* the Query object now holds what is committed
fresh_query(session_query, stored) == stored

\* a comparison that lets every other percentage through
progress_advances_AnyChange(parsed, current) == parsed # current

\* if progress > query.progress
progress_advances(parsed, current) == parsed > current

\* the cursor closed before the operation is cancelled
CancelCalls_CloseFirst == <<"close", "cancel_operation", "close_operation">>

\* the calls of the early-cancel branch, in the order of the code
CancelCalls == <<"cancel_operation", "close_operation", "close">>

StartCursor ==
    /\ db_poll_interval \in PollIntervalConfigs
    /\ db_query \in [early_cancel : BOOLEAN, progress : InitialProgress]
    /\ query = db_query
    /\ hc_pc = "status"
    /\ status = "none"
    /\ progress = <<>>
    /\ calls = <<>>
    /\ hc_exception = "none"

\* status = cursor.status(), before the loop and at the end of its body;
\* the while condition follows
PollStatus ==
    /\ hc_pc = "status"
    /\ NumCalls(calls, "status") < MaxPolls
    /\ \E outcome \in CursorStates \cup {"raises"} :
        IF outcome = "raises"
        THEN /\ calls' = Append(calls, StatusCall("raises"))
             /\ hc_pc' = "except"
             /\ hc_exception' = "status"
             /\ status' = status
        ELSE /\ calls' = Append(calls, StatusCall(outcome))
             /\ status' = outcome
             /\ hc_pc' = IF while_condition(outcome) THEN "body" ELSE "end"
             /\ hc_exception' = hc_exception
    /\ UNCHANGED <<db_poll_interval, db_query, query, progress, cfg_vars, es_vars>>

\* the early-cancel branch: the three calls, of which the failing-th raises
\* (none when failing = 0)
CancelBranch(fresh, failing) ==
    LET made == IF failing = 0 THEN Len(CancelCalls) ELSE failing
    IN  /\ calls' = calls \o <<Call("refresh")>>
                          \o [i \in 1..made |-> Call(CancelCalls[i])]
        /\ hc_pc' = IF failing = 0 THEN "break" ELSE "except"
        /\ hc_exception' = IF failing = 0 THEN hc_exception ELSE CancelCalls[failing]
        /\ query' = fresh
        /\ UNCHANGED <<db_query, progress>>

\* the rest of the body: the log, the progress, the sleep
ProgressBranch(fresh, log, committed) ==
    LET text == log.kind \in {"text", "progress"}
        bound == IF log.kind = "progress" THEN <<log.pct>> ELSE progress
        logged == calls \o <<Call("refresh"), Call("get_log")>>
    IN  IF ~text
        THEN \* log is "": nothing but the sleep
             /\ calls' = logged \o <<SleepCall(sleep_interval(db_poll_interval))>>
             /\ hc_pc' = "status"
             /\ query' = fresh
             /\ UNCHANGED <<db_query, progress, hc_exception>>
        ELSE IF bound = <<>>
        THEN \* str(progress) with progress never assigned
             /\ calls' = logged
             /\ hc_pc' = "except"
             /\ hc_exception' = "UnboundLocalError"
             /\ query' = fresh
             /\ UNCHANGED <<db_query, progress>>
        ELSE IF progress_advances(bound[1], fresh.progress)
        THEN /\ progress' = bound
             /\ query' = [fresh EXCEPT !.progress = bound[1]]
             /\ IF committed
                THEN /\ db_query' = [db_query EXCEPT !.progress = bound[1]]
                     /\ calls' = logged \o
                          <<Call("commit"), SleepCall(sleep_interval(db_poll_interval))>>
                     /\ hc_pc' = "status"
                     /\ hc_exception' = hc_exception
                ELSE /\ db_query' = db_query
                     /\ calls' = logged \o <<Call("commit")>>
                     /\ hc_pc' = "except"
                     /\ hc_exception' = "commit"
        ELSE /\ progress' = bound
             /\ query' = fresh
             /\ calls' = logged \o <<SleepCall(sleep_interval(db_poll_interval))>>
             /\ hc_pc' = "status"
             /\ UNCHANGED <<db_query, hc_exception>>

\* one pass of the while body, from the refresh to the sleep
LoopBody ==
    /\ hc_pc = "body"
    /\ \E refreshed \in BOOLEAN :
        IF ~refreshed
        THEN \* db.session.refresh or .one() raises
             /\ calls' = Append(calls, Call("refresh"))
             /\ hc_pc' = "except"
             /\ hc_exception' = "refresh"
             /\ UNCHANGED <<db_query, query, progress>>
        ELSE IF fresh_query(query, db_query).early_cancel
        THEN \E failing \in 0..Len(CancelCalls) :
                CancelBranch(fresh_query(query, db_query), failing)
        ELSE \E log \in GetLogOutcomes, committed \in BOOLEAN :
                ProgressBranch(fresh_query(query, db_query), log, committed)
    /\ UNCHANGED <<db_poll_interval, status, cfg_vars, es_vars>>

\* another process: stop_query commits the early-cancel flag into query.extra
StopQuery ==
    /\ ~db_query.early_cancel
    /\ db_query' = [db_query EXCEPT !.early_cancel = TRUE]
    /\ UNCHANGED <<db_poll_interval, hc_pc, status, query, progress, calls,
                   hc_exception, cfg_vars, es_vars>>

NextCursor ==
    \/ PollStatus
    \/ LoopBody
    \/ StopQuery

(***************************************************************************)
(* superset/db_engine_specs/impala.py: get_cancel_query_id, cancel_query   *)
(***************************************************************************)
HexDigits == <<"0","1","2","3","4","5","6","7","8","9","a","b","c","d","e","f">>

\* bytes.hex(): two lower-case hexadecimal digits for each byte
hex(bytes) ==
    [i \in 1..(2 * Len(bytes)) |->
        IF i % 2 = 1
        THEN HexDigits[(bytes[(i + 1) \div 2] \div 16) + 1]
        ELSE HexDigits[(bytes[i \div 2] % 16) + 1]]

\* s[::-1]
reversed(s) == [i \in 1..Len(s) |-> s[Len(s) + 1 - i]]

\* s[-n:]
last_chars(s, n) == SubSeq(s, IF Len(s) > n THEN Len(s) - n + 1 ELSE 1, Len(s))

\* s[:n]
first_chars(s, n) == SubSeq(s, 1, IF Len(s) > n THEN n ELSE Len(s))

\* the operation guids handle.operationId.guid may hold: 16 bytes each; the
\* last is the guid of the query id in impala.py's comment,
\* 5543ffdf692b7d02:f78a944000000000
Guids ==
    { [i \in 1..16 |-> (a * i + b) % 256] : a \in {1, 7, 17, 100}, b \in {0, 9, 100, 250} }
      \cup { <<2, 125, 43, 105, 223, 255, 67, 85, 0, 0, 0, 0, 64, 148, 138, 247>> }

\* what getattr(cursor, "_last_operation", None) finds: no attribute, a falsy
\* value, or an operation with a guid
LastOperations ==
    { [kind |-> k, guid |-> <<>>] : k \in {"missing", "falsy"} }
      \cup { [kind |-> "operation", guid |-> g] : g \in Guids }

\* the halves of the id the other way round
QueryIdOfGuid_Swapped(guid_) ==
    LET guid == hex(reversed(guid_))
    IN  first_chars(guid, 16) \o <<":">> \o last_chars(guid, 16)

\* guid = ...guid[::-1].hex(); f"{guid[-16:]}:{guid[:16]}"
QueryIdOfGuid(guid_) ==
    LET guid == hex(reversed(guid_))
    IN  last_chars(guid, 16) \o <<":">> \o first_chars(guid, 16)

get_cancel_query_id ==
    \E last_operation \in LastOperations :
        /\ es_call' = [method |-> "get_cancel_query_id",
                       last_operation |-> last_operation]
        /\ es_result' = IF last_operation.kind # "operation"
                        THEN [none |-> TRUE, value |-> <<>>]
                        ELSE [none |-> FALSE,
                              value |-> QueryIdOfGuid(last_operation.guid)]
        /\ es_posted' = <<>>
        /\ UNCHANGED <<cfg_vars, hc_vars>>

\* the HTTP status codes of the responses to the POST
StatusCodes == {200, 204, 302, 404, 500}

CancelQueryIds == {"5543ffdf692b7d02:f78a944000000000", "0:0"}

\* a Response is true when it is ok: its status is no 4xx or 5xx
response_truthy(code) == ~(code >= 400 /\ code < 600)

\* a result that takes every good response for a success
cancel_result_AnyOk(code) == response_truthy(code)

\* bool(response and response.status_code == 200)
cancel_result(code) == response_truthy(code) /\ code = 200

\* f"http://{impala_host}:25000/cancel_query?query_id={cancel_query_id}"
cancel_url(impala_host, cancel_query_id) ==
    [method |-> "POST", scheme |-> "http", host |-> impala_host, port |-> 25000,
     path |-> "/cancel_query", query_id |-> cancel_query_id, timeout |-> 3]

ImpalaHosts == {"impala-1", "10.0.0.7"}

cancel_query ==
    \E host_raises \in BOOLEAN, post_raises \in BOOLEAN, impala_host \in ImpalaHosts,
       code \in StatusCodes, cancel_query_id \in CancelQueryIds :
        /\ es_call' = [method |-> "cancel_query", host |-> impala_host,
                       host_raises |-> host_raises, post_raises |-> post_raises,
                       code |-> code, cancel_query_id |-> cancel_query_id]
        /\ IF host_raises
           THEN \* query.database.url_object.host raises
                /\ es_posted' = <<>>
                /\ es_result' = FALSE
           ELSE /\ es_posted' = <<cancel_url(impala_host, cancel_query_id)>>
                /\ es_result' = IF post_raises THEN FALSE ELSE cancel_result(code)
        /\ UNCHANGED <<cfg_vars, hc_vars>>

(***************************************************************************)
(* The time-grain tables of impala.py and mssql.py; a template is the      *)
(* sequence of its pieces, the placeholder {col} being a piece of its own  *)
(***************************************************************************)
\* a table whose day template misspells the placeholder
ImpalaTimeGrainExpressions_NoCol ==
    ("None" :> <<"{col}">>)
    @@ ("DAY" :> <<"TRUNC({column}, 'DD')">>)

\* ImpalaEngineSpec._time_grain_expressions
ImpalaTimeGrainExpressions ==
    ("None" :> <<"{col}">>)
    @@ ("MINUTE" :> <<"TRUNC(", "{col}", ", 'MI')">>)
    @@ ("HOUR" :> <<"TRUNC(", "{col}", ", 'HH')">>)
    @@ ("DAY" :> <<"TRUNC(", "{col}", ", 'DD')">>)
    @@ ("WEEK" :> <<"TRUNC(", "{col}", ", 'WW')">>)
    @@ ("MONTH" :> <<"TRUNC(", "{col}", ", 'MONTH')">>)
    @@ ("QUARTER" :> <<"TRUNC(", "{col}", ", 'Q')">>)
    @@ ("YEAR" :> <<"TRUNC(", "{col}", ", 'YYYY')">>)

\* MssqlEngineSpec._time_grain_expressions
MssqlTimeGrainExpressions ==
    ("None" :> <<"{col}">>)
    @@ ("SECOND" :>
          << "DATEADD(SECOND,             DATEDIFF(SECOND, '2000-01-01', ",
             "{col}",
             "), '2000-01-01')" >>)
    @@ ("MINUTE" :>
          << "DATEADD(MINUTE, DATEDIFF(MINUTE, 0, ",
             "{col}",
             "), 0)" >>)
    @@ ("FIVE_MINUTES" :>
          << "DATEADD(MINUTE,             DATEDIFF(MINUTE, 0, ",
             "{col}",
             ") / 5 * 5, 0)" >>)
    @@ ("TEN_MINUTES" :>
          << "DATEADD(MINUTE,             DATEDIFF(MINUTE, 0, ",
             "{col}",
             ") / 10 * 10, 0)" >>)
    @@ ("FIFTEEN_MINUTES" :>
          << "DATEADD(MINUTE,             DATEDIFF(MINUTE, 0, ",
             "{col}",
             ") / 15 * 15, 0)" >>)
    @@ ("THIRTY_MINUTES" :>
          << "DATEADD(MINUTE,             DATEDIFF(MINUTE, 0, ",
             "{col}",
             ") / 30 * 30, 0)" >>)
    @@ ("HOUR" :> <<"DATEADD(HOUR, DATEDIFF(HOUR, 0, ", "{col}", "), 0)">>)
    @@ ("DAY" :> <<"DATEADD(DAY, DATEDIFF(DAY, 0, ", "{col}", "), 0)">>)
    @@ ("WEEK" :>
          << "DATEADD(DAY, 1 - DATEPART(WEEKDAY, ",
             "{col}",
             "), DATEADD(DAY, DATEDIFF(DAY, 0, ",
             "{col}",
             "), 0))" >>)
    @@ ("MONTH" :> <<"DATEADD(MONTH, DATEDIFF(MONTH, 0, ", "{col}", "), 0)">>)
    @@ ("QUARTER" :>
          << "DATEADD(QUARTER, DATEDIFF(QUARTER, 0, ",
             "{col}",
             "), 0)" >>)
    @@ ("YEAR" :> <<"DATEADD(YEAR, DATEDIFF(YEAR, 0, ", "{col}", "), 0)">>)
    @@ ("WEEK_STARTING_SUNDAY" :>
          << "DATEADD(DAY, -1, DATEADD(WEEK, DATEDIFF(WEEK, 0, ",
             "{col}",
             "), 0))" >>)
    @@ ("WEEK_STARTING_MONDAY" :>
          << "DATEADD(WEEK, DATEDIFF(WEEK, 0, DATEADD(DAY, -1, ",
             "{col}",
             ")), 0)" >>)

EngineSpecs == {"ImpalaEngineSpec", "MssqlEngineSpec", "AzureSynapseSpec"}

\* cls._time_grain_expressions: AzureSynapseSpec defines none and inherits
\* the one of MssqlEngineSpec
time_grain_expressions(cls) ==
    IF cls = "ImpalaEngineSpec" THEN ImpalaTimeGrainExpressions
    ELSE MssqlTimeGrainExpressions

\* the grains of the two tables, and one that neither supports
TimeGrains ==
    DOMAIN ImpalaTimeGrainExpressions \cup DOMAIN MssqlTimeGrainExpressions
        \cup {"FIVE_SECONDS"}

\* cls._time_grain_expressions.get(grain)
get_time_grain_expression ==
    \E cls \in EngineSpecs, grain \in TimeGrains :
        /\ es_call' = [method |-> "get_time_grain_expression", cls |-> cls,
                       grain |-> grain]
        /\ es_result' = IF grain \in DOMAIN time_grain_expressions(cls)
                        THEN [none |-> FALSE,
                              value |-> time_grain_expressions(cls)[grain]]
                        ELSE [none |-> TRUE, value |-> <<>>]
        /\ es_posted' = <<>>
        /\ UNCHANGED <<cfg_vars, hc_vars>>

(***************************************************************************)
(* superset/db_engine_specs/mssql.py: extract_error_message                *)
(***************************************************************************)
\* engine = "mssql", of MssqlEngineSpec and of AzureSynapseSpec
mssql_engine(cls) ==
    <<"m","s","s","q","l">>

\* the advice returned for error 8155
alias_advice ==
    <<"A","l","l"," ","y","o","u","r"," ","S","Q","L"," ","f","u","n","c","t",
      "i","o","n","s"," ","n","e","e","d"," ","t","o"," ","h","a","v","e"," ",
      "a","n"," ","a","l","i","a","s"," ","o","n"," ","M","S","S","Q","L",".",
      " ","F","o","r"," ","e","x","a","m","p","l","e",":"," ","S","E","L","E",
      "C","T"," ","C","O","U","N","T","(","*",")"," ","A","S"," ","C","1"," ",
      "F","R","O","M"," ","T","A","B","L","E","1">>

\* str(ex) of the exceptions: error 8155, another error, 8155 after a space,
\* error 81550, a text that stops before the comma, the empty text
ExceptionTexts ==
    { <<"(","8","1","5","5",","," ","b","'","N","o"," ","c","o","l","u","m",
        "n"," ","n","a","m","e","'",")">>,
      <<"(","2","0","8",","," ","b","'","I","n","v","a","l","i","d"," ","o",
        "b","j","e","c","t"," ","n","a","m","e","'",")">>,
      <<" ","(","8","1","5","5",","," ","b","'","x","'",")">>,
      <<"(","8","1","5","5","0",","," ","b","'","x","'",")">>,
      <<"(","8","1","5","5">>,
      <<>> }

\* ex.message of the exceptions: none, or a message of its own
ExceptionMessages ==
    { <<>>,
      <<"I","n","v","a","l","i","d"," ","o","b","j","e","c","t"," ","n","a",
        "m","e">> }

MssqlExceptions == [text : ExceptionTexts, message : ExceptionMessages]

\* BaseEngineSpec._extract_error_message: the message of the exception when it
\* has one, otherwise its text
_extract_error_message(ex) ==
    IF ex.message # <<>> THEN ex.message ELSE ex.text

\* a method without the branch for error 8155
mssql_error_message_NoAdvice(cls, ex) ==
    mssql_engine(cls) \o <<" ","e","r","r","o","r",":"," ">> \o _extract_error_message(ex)

\* if str(ex).startswith("(8155,"): return f"{cls.engine} error: All your ..."
\* return f"{cls.engine} error: {cls._extract_error_message(ex)}"
mssql_error_message(cls, ex) ==
    IF startswith(ex.text, <<"(","8","1","5","5",",">>)
    THEN mssql_engine(cls) \o <<" ","e","r","r","o","r",":"," ">> \o alias_advice
    ELSE mssql_engine(cls) \o <<" ","e","r","r","o","r",":"," ">> \o _extract_error_message(ex)

extract_error_message ==
    \E cls \in {"MssqlEngineSpec", "AzureSynapseSpec"}, ex \in MssqlExceptions :
        /\ es_call' = [method |-> "extract_error_message", cls |-> cls, ex |-> ex]
        /\ es_result' = [none |-> FALSE, value |-> mssql_error_message(cls, ex)]
        /\ es_posted' = <<>>
        /\ UNCHANGED <<cfg_vars, hc_vars>>

(***************************************************************************)
(* superset/db_engine_specs/mssql.py: the connection errors                *)
(***************************************************************************)
\* at most this many pieces make up the text of a connection error
MaxPieces == 3

\* the pieces of the texts FreeTDS reports: the server that is unavailable,
\* the two Net-Lib errors, the failed connection, a newline and a space
ErrorPieces ==
    << <<"A","d","a","p","t","i","v","e"," ","S","e","r","v","e","r"," ","i",
         "s"," ","u","n","a","v","a","i","l","a","b","l","e"," ","o","r"," ",
         "d","o","e","s"," ","n","o","t"," ","e","x","i","s","t"," ","(","l",
         "o","c","a","l","h","o","s","t",")">>,
       <<"N","e","t","-","L","i","b"," ","e","r","r","o","r"," ","d","u","r",
         "i","n","g"," ","C","o","n","n","e","c","t","i","o","n"," ","r","e",
         "f","u","s","e","d"," ","(","6","1",")">>,
       <<"N","e","t","-","L","i","b"," ","e","r","r","o","r"," ","d","u","r",
         "i","n","g"," ","O","p","e","r","a","t","i","o","n"," ","t","i","m",
         "e","d"," ","o","u","t"," ","(","6","0",")">>,
       <<"A","d","a","p","t","i","v","e"," ","S","e","r","v","e","r"," ","c",
         "o","n","n","e","c","t","i","o","n"," ","f","a","i","l","e","d">>,
       <<"\n">>,
       <<" ">> >>

RECURSIVE join_pieces(_)
join_pieces(ps) ==
    IF ps = <<>> THEN <<>> ELSE ErrorPieces[Head(ps)] \o join_pieces(Tail(ps))

\* str(ex) of the connection errors: pieces in any order, each at most once
ErrorTexts ==
    { join_pieces(ps) :
        ps \in { ps \in UNION { [1..n -> DOMAIN ErrorPieces] : n \in 0..MaxPieces } :
                    \A i, j \in DOMAIN ps : i # j => ps[i] # ps[j] } }

\* the positions of text at which the literal lit begins
find_all(text, lit) ==
    { i \in 1..(Len(text) - Len(lit) + 1) :
        text[i] = lit[1] /\ SubSeq(text, i, i + Len(lit) - 1) = lit }

\* "." matches every character but the newline: none of text[i..j] is one
no_newline(text, i, j) == \A k \in i..j : text[k] # "\n"

\* re.compile("Adaptive Server connection failed").search(text)
CONNECTION_ACCESS_DENIED_REGEX(text) ==
    find_all(text,
      <<"A","d","a","p","t","i","v","e"," ","S","e","r","v","e","r"," ","c",
        "o","n","n","e","c","t","i","o","n"," ","f","a","i","l","e","d">>) # {}

\* the literal that begins CONNECTION_INVALID_HOSTNAME_REGEX
unavailable_or_does_not_exist ==
    <<"A","d","a","p","t","i","v","e"," ","S","e","r","v","e","r"," ","i","s",
      " ","u","n","a","v","a","i","l","a","b","l","e"," ","o","r"," ","d","o",
      "e","s"," ","n","o","t"," ","e","x","i","s","t"," ","(">>

\* the matches of r"Adaptive Server is unavailable or does not exist
\* \((?P<hostname>.*?)\)(?!.*Net-Lib error).*$": <<s, e>> when the literal
\* begins at s and the parenthesis that closes the group is at e
invalid_hostname_matches(text) ==
    LET n == Len(text)
        lit == unavailable_or_does_not_exist
        net_lib == find_all(text,
                       <<"N","e","t","-","L","i","b"," ","e","r","r","o","r">>)
    IN  { m \in find_all(text, lit) \X { e \in 1..n : text[e] = ")" } :
            LET s == m[1]
                e == m[2]
            IN  /\ e >= s + Len(lit)
                \* (?P<hostname>.*?)
                /\ no_newline(text, s + Len(lit), e - 1)
                \* (?!.*Net-Lib error)
                /\ ~\E p \in net_lib : p > e /\ no_newline(text, e + 1, p - 1)
                \* .*$ : the end of the text, or the newline that ends it
                /\ \/ no_newline(text, e + 1, n)
                   \/ text[n] = "\n" /\ no_newline(text, e + 1, n - 1) }

\* CONNECTION_INVALID_HOSTNAME_REGEX.search(text)
CONNECTION_INVALID_HOSTNAME_REGEX(text) == invalid_hostname_matches(text) # {}

\* the group "hostname" of the match search returns: the leftmost begin, and
\* for it the shortest group
invalid_hostname_group(text) ==
    LET ms == invalid_hostname_matches(text)
        s == CHOOSE s \in { m[1] : m \in ms } : \A m \in ms : s <= m[1]
        e == CHOOSE e \in { m[2] : m \in { k \in ms : k[1] = s } } :
                 \A m \in { k \in ms : k[1] = s } : e <= m[2]
    IN  SubSeq(text, s + Len(unavailable_or_does_not_exist), e - 1)

\* re.compile(r"Net-Lib error during Connection refused \(61\)").search(text)
CONNECTION_PORT_CLOSED_REGEX(text) ==
    find_all(text,
      <<"N","e","t","-","L","i","b"," ","e","r","r","o","r"," ","d","u","r",
        "i","n","g"," ","C","o","n","n","e","c","t","i","o","n"," ","r","e",
        "f","u","s","e","d"," ","(","6","1",")">>) # {}

\* re.compile(r"Net-Lib error during Operation timed out \(60\)").search(text)
CONNECTION_HOST_DOWN_REGEX(text) ==
    find_all(text,
      <<"N","e","t","-","L","i","b"," ","e","r","r","o","r"," ","d","u","r",
        "i","n","g"," ","O","p","e","r","a","t","i","o","n"," ","t","i","m",
        "e","d"," ","o","u","t"," ","(","6","0",")">>) # {}

\* custom_errors, looked up as BaseEngineSpec.extract_errors does: the error
\* type of the first regex, in the order of the dict, that the text matches
custom_error_type(text) ==
    IF CONNECTION_ACCESS_DENIED_REGEX(text)
        THEN "CONNECTION_ACCESS_DENIED_ERROR"
    ELSE IF CONNECTION_INVALID_HOSTNAME_REGEX(text)
        THEN "CONNECTION_INVALID_HOSTNAME_ERROR"
    ELSE IF CONNECTION_PORT_CLOSED_REGEX(text)
        THEN "CONNECTION_PORT_CLOSED_ERROR"
    ELSE IF CONNECTION_HOST_DOWN_REGEX(text)
        THEN "CONNECTION_HOST_DOWN_ERROR"
    ELSE "GENERIC_DB_ENGINE_ERROR"

extract_errors ==
    \E text \in ErrorTexts :
        /\ es_call' = [method |-> "extract_errors", text |-> text]
        /\ es_result' =
              [none |-> FALSE,
               value |-> [error_type |-> custom_error_type(text),
                          hostname |->
                              IF custom_error_type(text)
                                    = "CONNECTION_INVALID_HOSTNAME_ERROR"
                              THEN invalid_hostname_group(text)
                              ELSE <<>>]]
        /\ es_posted' = <<>>
        /\ UNCHANGED <<cfg_vars, hc_vars>>

(***************************************************************************)
(* superset/config.py: CSV_TO_HIVE_UPLOAD_DIRECTORY_FUNC                   *)
(***************************************************************************)
CSV_TO_HIVE_UPLOAD_DIRECTORY ==
    <<"E","X","T","E","R","N","A","L","_","H","I","V","E","_","T","A","B","L",
      "E","S","/">>

\* database.id
DatabaseIds == {1, 42, 100}

\* the schema argument: None, or a string
NoSchema == [none |-> TRUE, value |-> <<>>]

Schemas ==
    {NoSchema} \cup
    { [none |-> FALSE, value |-> v] :
        v \in { <<>>,
                <<"m","a","i","n">>,
                <<"a","/","b">>,
                <<"s","a","l","e","s","/">>,
                <<"/","t","m","p">> } }

\* posixpath.join(path, *p): a component that begins with a slash replaces
\* what came before it, another is appended after a slash unless the path is
\* empty or ends with one
RECURSIVE os_path_join(_, _)
os_path_join(path, p) ==
    IF p = <<>> THEN path
    ELSE LET b == Head(p)
         IN  os_path_join(
                 IF startswith(b, <<"/">>) THEN b
                 ELSE IF path = <<>> \/ path[Len(path)] = "/" THEN path \o b
                 ELSE path \o <<"/">> \o b,
                 Tail(p))

\* a join without the final empty component
upload_directory_NoEmptyPart(database_id, schema) ==
    os_path_join(CSV_TO_HIVE_UPLOAD_DIRECTORY,
                 <<str(database_id), IF schema.none THEN <<>> ELSE schema.value>>)

\* os.path.join(CSV_TO_HIVE_UPLOAD_DIRECTORY, str(database.id), schema or "", "")
upload_directory(database_id, schema) ==
    os_path_join(CSV_TO_HIVE_UPLOAD_DIRECTORY,
                 <<str(database_id), IF schema.none THEN <<>> ELSE schema.value,
                   <<>>>>)

CSV_TO_HIVE_UPLOAD_DIRECTORY_FUNC ==
    \E database_id \in DatabaseIds, schema \in Schemas :
        /\ es_call' = [method |-> "CSV_TO_HIVE_UPLOAD_DIRECTORY_FUNC",
                       database_id |-> database_id, schema |-> schema]
        /\ es_result' = [none |-> FALSE,
                         value |-> upload_directory(database_id, schema)]
        /\ es_posted' = <<>>
        /\ UNCHANGED <<cfg_vars, hc_vars>>

NextEngine ==
    \/ get_cancel_query_id
    \/ cancel_query
    \/ get_time_grain_expression
    \/ extract_error_message
    \/ extract_errors
    \/ CSV_TO_HIVE_UPLOAD_DIRECTORY_FUNC

(***************************************************************************)
(* Specifications                                                          *)
(***************************************************************************)
\* the configuration before superset.config is imported
IdleConfig ==
    /\ environ = EmptyDict
    /\ override_conf = EmptyDict
    /\ override_all = NoAll
    /\ override_raises = FALSE
    /\ importable = FALSE
    /\ cfg = EmptyDict
    /\ cfg_pc = "start"
    /\ feature_flags = EmptyDict
    /\ files = InstalledFiles

\* no handle_cursor under way
IdleCursor ==
    /\ db_poll_interval = EmptyDict
    /\ db_query = [early_cancel |-> FALSE, progress |-> 0]
    /\ query = db_query
    /\ hc_pc = "idle"
    /\ status = "none"
    /\ progress = <<>>
    /\ calls = <<>>
    /\ hc_exception = "none"

\* no engine-spec method called yet
IdleEngine ==
    /\ es_call = [method |-> "none"]
    /\ es_result = [none |-> TRUE, value |-> <<>>]
    /\ es_posted = <<>>

InitConfig == StartConfig /\ IdleCursor /\ IdleEngine

SpecConfig == InitConfig /\ [][NextConfig]_vars

InitSettings == StartSettings /\ IdleCursor /\ IdleEngine

SpecSettings == InitSettings /\ [][NextConfig]_vars

InitCursor == IdleConfig /\ StartCursor /\ IdleEngine

SpecCursor == InitCursor /\ [][NextCursor]_vars

InitEngine == IdleConfig /\ IdleCursor /\ IdleEngine

SpecEngine == InitEngine /\ [][NextEngine]_vars


(***************************************************************************)
(* Claims about superset/config.py                                         *)
(***************************************************************************)
ConfigLoaded == cfg_pc \in {"loaded", "app"}

ViaImport == CONFIG_PATH_ENV_VAR \notin DOMAIN environ /\ importable

ViaPath == CONFIG_PATH_ENV_VAR \in DOMAIN environ

\* C1 as stated: SUPERSET_CONFIG_PATH unset and superset_config importable:
\* after the load every setting of config.py that superset_config defines
\* has the value superset_config gave it.
C1_EverySettingOverridden ==
    (ConfigLoaded /\ ViaImport) =>
        \A n \in DOMAIN override_conf \cap DOMAIN ConfigDefaults(environ) :
            cfg[n] = override_conf[n]

\* C1 amended: after the load every name superset_config exports to
\* "import *" (the names of its __all__ when it defines one, otherwise all
\* its names that do not begin with an underscore, so every setting it
\* defines) has the value superset_config gave it; a setting it defines but
\* leaves out of its __all__ keeps the value config.py assigned.
C1_ExportedNamesOverridden ==
    (ConfigLoaded /\ ViaImport) =>
        \A n \in DOMAIN override_conf :
            LET exported == IF override_all.defined
                            THEN n \in override_all.names
                            ELSE n[1] # "_"
            IN  /\ exported => (n \in DOMAIN cfg /\ cfg[n] = override_conf[n])
                /\ (~exported /\ n \in DOMAIN ConfigDefaults(environ))
                      => cfg[n] = ConfigDefaults(environ)[n]

\* C1 witness: superset_config, without __all__, has replaced ROW_LIMIT
C1_Witness ==
    /\ cfg_pc = "loaded"
    /\ ViaImport
    /\ ~override_all.defined
    /\ ROW_LIMIT \in DOMAIN override_conf
    /\ cfg[ROW_LIMIT] = pyval("7")

\* C2: SUPERSET_CONFIG_PATH names a file that loads: every upper-case name
\* of the file ends with the file's value, whatever config.py assigned; every
\* upper-case name the file does not define keeps config.py's value.
C2_LaterAssignmentWins ==
    (ConfigLoaded /\ ViaPath) =>
        /\ \A n \in DOMAIN override_conf :
              isupper(n) => (n \in DOMAIN cfg /\ cfg[n] = override_conf[n])
        /\ \A n \in DOMAIN ConfigDefaults(environ) :
              (isupper(n) /\ n \notin DOMAIN override_conf)
                  => cfg[n] = ConfigDefaults(environ)[n]

\* C2 witness: the file has replaced the environment-derived
\* DEFAULT_FEATURE_FLAGS and ROW_LIMIT is the one config.py assigned
C2_Witness ==
    /\ cfg_pc = "loaded"
    /\ ViaPath
    /\ (SUPERSET_FEATURE_ \o THUMBNAILS) \in DOMAIN environ
    /\ DEFAULT_FEATURE_FLAGS \in DOMAIN override_conf
    /\ cfg[DEFAULT_FEATURE_FLAGS] = pydict((FOO :> TRUE) @@ (BAR :> FALSE))
    /\ cfg[ROW_LIMIT] = pyval("50000")

\* C3: once the defaults are built, every environment variable named
\* SUPERSET_FEATURE_ plus at least one word character maps, in
\* DEFAULT_FEATURE_FLAGS, its name without the prefix to parse_boolean_string
\* of its value; a flag with no such variable keeps its built-in default; the
\* variable named exactly SUPERSET_FEATURE_ adds no flag.
C3_EnvFeatureFlags ==
    (cfg_pc = "defaults") =>
        LET flags == cfg[DEFAULT_FEATURE_FLAGS].dict
            plen == Len(SUPERSET_FEATURE_)
            named(k) == /\ Len(k) > plen
                        /\ SubSeq(k, 1, plen) = SUPERSET_FEATURE_
                        /\ k[plen + 1] \in WordChars
        IN  /\ \A k \in DOMAIN environ :
                  named(k) =>
                      /\ SubSeq(k, plen + 1, Len(k)) \in DOMAIN flags
                      /\ flags[SubSeq(k, plen + 1, Len(k))]
                            = parse_boolean_string(environ[k])
            /\ \A f \in DOMAIN BuiltinFeatureFlags :
                  (SUPERSET_FEATURE_ \o f) \notin DOMAIN environ
                      => (f \in DOMAIN flags /\ flags[f] = BuiltinFeatureFlags[f])
            /\ <<>> \notin DOMAIN flags

\* C3 witness: SUPERSET_FEATURE_THUMBNAILS=True has replaced the built-in
\* False, with the bare SUPERSET_FEATURE_ set too
C3_Witness ==
    /\ cfg_pc = "defaults"
    /\ (SUPERSET_FEATURE_ \o THUMBNAILS) \in DOMAIN environ
    /\ environ[SUPERSET_FEATURE_ \o THUMBNAILS] = "True"
    /\ SUPERSET_FEATURE_ \in DOMAIN environ
    /\ cfg[DEFAULT_FEATURE_FLAGS].dict[THUMBNAILS] = TRUE

\* C4: the effective feature flags are DEFAULT_FEATURE_FLAGS overridden key
\* by key by FEATURE_FLAGS: a flag in both takes the FEATURE_FLAGS value, a
\* flag in one keeps that value; FEATURE_FLAGS is the override file's when the
\* file defines it.
C4_EffectiveFeatureFlags ==
    (cfg_pc = "app") =>
        LET d == cfg[DEFAULT_FEATURE_FLAGS].dict
            f == cfg[FEATURE_FLAGS].dict
        IN  /\ DOMAIN feature_flags = DOMAIN d \cup DOMAIN f
            /\ \A k \in DOMAIN f : feature_flags[k] = f[k]
            /\ \A k \in DOMAIN d \ DOMAIN f : feature_flags[k] = d[k]
            /\ (ViaPath /\ FEATURE_FLAGS \in DOMAIN override_conf) =>
                  \A k \in DOMAIN override_conf[FEATURE_FLAGS].dict :
                      /\ k \in DOMAIN feature_flags
                      /\ feature_flags[k] = override_conf[FEATURE_FLAGS].dict[k]

\* C4 witness: the example of config.py's comment
C4_Witness ==
    /\ cfg_pc = "app"
    /\ cfg[DEFAULT_FEATURE_FLAGS].dict = (FOO :> TRUE) @@ (BAR :> FALSE)
    /\ cfg[FEATURE_FLAGS].dict = (BAR :> TRUE) @@ (BAZ :> TRUE)
    /\ feature_flags = (FOO :> TRUE) @@ (BAR :> TRUE) @@ (BAZ :> TRUE)

(***************************************************************************)
(* Claims about ImpalaEngineSpec.handle_cursor                             *)
(***************************************************************************)
\* handle_cursor has returned: after the loop, by the break, or from except
Returned == hc_pc \in {"end", "break", "except"}

Last(cs) == cs[Len(cs)]

\* the order the claims give: cancel_operation, close_operation, close
ClaimedOrder == <<"cancel_operation", "close_operation", "close">>

\* the refresh and the first n calls of that order
CancelPrefix(n) ==
    <<Call("refresh")>> \o [i \in 1..n |-> Call(ClaimedOrder[i])]

\* C5 as stated: handle_cursor polls while the status is INITIALIZED_STATE or
\* RUNNING_STATE and returns after the first status that is neither; a first
\* status that is neither makes it return with no other call made.
C5_ReturnsAtFirstFinishedStatus ==
    /\ Returned => status \in CursorStates \ unfinished_states
    /\ (calls # <<>> /\ calls[1].result \in CursorStates \ unfinished_states)
          => calls = <<StatusCall(calls[1].result)>>

\* C5 amended: handle_cursor polls while the status is INITIALIZED_STATE or
\* RUNNING_STATE; it returns after the first status that is neither, or
\* earlier, with the status still unfinished, by the break of the early-cancel
\* branch or because something in the try raised (a call, or the use of the
\* local progress that no log line has assigned yet); a first status that is
\* neither makes it return with no other call made.
C5_ReturnsAtFinishedStatusBreakOrRaise ==
    /\ \A i \in DOMAIN calls :
          (calls[i].op = "status" /\ i < Len(calls))
              => calls[i].result \in unfinished_states
    /\ hc_pc = "body" => (status \in unfinished_states /\ Last(calls).op = "status")
    /\ (hc_pc = "status" /\ calls # <<>>)
          => (status \in unfinished_states /\ Last(calls).op = "sleep")
    /\ hc_pc = "end"
          => /\ status \in CursorStates \ unfinished_states
             /\ Last(calls) = StatusCall(status)
    /\ hc_pc = "break"
          => /\ status \in unfinished_states
             /\ query.early_cancel
             /\ hc_exception = "none"
    /\ hc_pc = "except" <=> hc_exception # "none"
    /\ (calls # <<>> /\ calls[1].result \in CursorStates \ unfinished_states)
          => (calls = <<StatusCall(calls[1].result)>> /\ hc_pc = "end")

\* C5 witness: polled three times, the third status being a finished one
C5_Witness ==
    /\ hc_pc = "end"
    /\ NumCalls(calls, "status") = 3
    /\ status = "FINISHED_STATE"

\* C6 as stated: when the re-read query carries the early-cancel flag while
\* the cursor is unfinished, cancel_operation, close_operation and close are
\* each called once, in that order, and nothing is called after them.
C6_CancelCallsAllThree ==
    [][ /\ (hc_pc = "body" /\ hc_pc' # "body"
             /\ db_query.early_cancel /\ hc_exception' # "refresh")
            => (calls' = calls \o CancelPrefix(3) /\ hc_pc' = "break")
        /\ Returned => (calls' = calls /\ hc_pc' = hc_pc) ]_vars

\* C6 amended: when the re-read query carries the early-cancel flag while the
\* cursor is unfinished, cancel_operation, close_operation and close are
\* called in that order, each once, up to the first of them that raises (all
\* three when none raises), and polling stops: nothing is called after them.
C6_CancelCallsInOrderUntilRaise ==
    [][ /\ (hc_pc = "body" /\ hc_pc' # "body"
             /\ db_query.early_cancel /\ hc_exception' # "refresh")
            => \/ (calls' = calls \o CancelPrefix(3) /\ hc_pc' = "break"
                    /\ hc_exception' = "none")
               \/ \E n \in 1..3 :
                    /\ calls' = calls \o CancelPrefix(n)
                    /\ hc_pc' = "except"
                    /\ hc_exception' = ClaimedOrder[n]
        /\ Returned => (calls' = calls /\ hc_pc' = hc_pc) ]_vars

\* C6 witness: the second pass of the body found the flag and made the three
\* calls
C6_Witness ==
    /\ hc_pc = "break"
    /\ NumCalls(calls, "status") = 2
    /\ SubSeq(calls, Len(calls) - 3, Len(calls)) = CancelPrefix(3)

\* C7 as stated: the first pass of the body that starts after stop_query has
\* committed the early-cancel flag, the cursor being unfinished, cancels and
\* closes the cursor.
C7_CommittedCancelCancelsAndCloses ==
    [][ (hc_pc = "body" /\ hc_pc' # "body" /\ db_query.early_cancel)
            => (calls' = calls \o CancelPrefix(3) /\ hc_pc' = "break") ]_vars

\* C7 amended: the first pass of the body that starts after stop_query has
\* committed the early-cancel flag, the cursor being unfinished, re-reads the
\* query and, unless the re-read raises, takes the early-cancel branch: it
\* calls cancel_operation, then close_operation and close unless an earlier
\* one of them raised, and in no case reads the log, commits, sleeps or polls
\* the status again.
C7_CommittedCancelTakesCancelBranch ==
    [][ (hc_pc = "body" /\ hc_pc' # "body" /\ db_query.early_cancel)
            => /\ hc_pc' \in {"break", "except"}
               /\ \/ (calls' = calls \o <<Call("refresh")>>
                       /\ hc_exception' = "refresh")
                  \/ \E n \in 1..3 :
                       /\ calls' = calls \o CancelPrefix(n)
                       /\ (n < 3 => hc_exception' = ClaimedOrder[n])
               /\ hc_pc' = "break" => calls' = calls \o CancelPrefix(3) ]_vars

\* C7 witness: a pass of the body read the log, stop_query then committed the
\* flag, and the next pass cancelled and closed the cursor
C7_Witness ==
    /\ hc_pc = "break"
    /\ NumCalls(calls, "get_log") >= 1
    /\ Last(calls) = Call("close")
    /\ db_query.early_cancel

(***************************************************************************)
(* Claims about cancel_query, get_cancel_query_id and the time-grain tables*)
(***************************************************************************)
\* C8: cancel_query returns a boolean and never raises; it returns True only
\* when the POST to port 25000 of the Impala host, path cancel_query, with the
\* given query id, was answered with status 200; False for any other answer
\* and when reading the host or sending the request raises.
C8_CancelQueryResult ==
    (es_call.method = "cancel_query") =>
        /\ es_result \in BOOLEAN
        /\ es_result <=> (/\ ~es_call.host_raises
                          /\ ~es_call.post_raises
                          /\ es_call.code = 200)
        /\ es_result =>
              /\ Len(es_posted) = 1
              /\ es_posted[1].method = "POST"
              /\ es_posted[1].host = es_call.host
              /\ es_posted[1].port = 25000
              /\ es_posted[1].path = "/cancel_query"
              /\ es_posted[1].query_id = es_call.cancel_query_id

\* C8 witness: a POST answered 200, and True returned
C8_Witness ==
    /\ es_call.method = "cancel_query"
    /\ es_call.code = 200
    /\ es_posted # <<>>
    /\ es_result = TRUE

\* C9: get_cancel_query_id returns None when the cursor has no last operation
\* (attribute missing or falsy); otherwise, for a 16-byte guid, h1:h2 where h1
\* is the 16 hex digits of the first 8 bytes in reversed order and h2 the 16
\* hex digits of the last 8 bytes in reversed order.
C9_CancelQueryId ==
    (es_call.method = "get_cancel_query_id") =>
        LET op == es_call.last_operation
            g == op.guid
        IN  IF op.kind # "operation"
            THEN es_result.none
            ELSE /\ ~es_result.none
                 /\ es_result.value =
                        hex([i \in 1..8 |-> g[9 - i]]) \o <<":">>
                            \o hex([i \in 1..8 |-> g[17 - i]])

\* C9 witness: the guid of the query 5543ffdf692b7d02:f78a944000000000
C9_Witness ==
    /\ es_call.method = "get_cancel_query_id"
    /\ es_call.last_operation.kind = "operation"
    /\ es_call.last_operation.guid[1] = 2
    /\ es_result.value =
          <<"5","5","4","3","f","f","d","f","6","9","2","b","7","d","0","2",":",
            "f","7","8","a","9","4","4","0","0","0","0","0","0","0","0","0">>

\* C10: in the Impala and the SQL Server table the absent grain maps to the
\* bare template {col} and every other supported grain to a template that
\* holds the placeholder {col}; AzureSynapseSpec answers from the SQL Server
\* table.
C10_TimeGrainTemplates ==
    (es_call.method = "get_time_grain_expression") =>
        /\ es_call.grain = "None" => es_result = [none |-> FALSE, value |-> <<"{col}">>]
        /\ ~es_result.none =>
              \E i \in DOMAIN es_result.value : es_result.value[i] = "{col}"
        /\ es_call.cls = "ImpalaEngineSpec" =>
              (es_result.none <=> es_call.grain \notin DOMAIN ImpalaTimeGrainExpressions)
        /\ es_call.cls \in {"MssqlEngineSpec", "AzureSynapseSpec"} =>
              IF es_call.grain \in DOMAIN MssqlTimeGrainExpressions
              THEN es_result = [none |-> FALSE,
                                value |-> MssqlTimeGrainExpressions[es_call.grain]]
              ELSE es_result.none

\* C10 witness: AzureSynapseSpec answers the week grain with the SQL Server
\* template, which names the column twice
C10_Witness ==
    /\ es_call.method = "get_time_grain_expression"
    /\ es_call.cls = "AzureSynapseSpec"
    /\ es_call.grain = "WEEK"
    /\ ~es_result.none
    /\ Cardinality({ i \in DOMAIN es_result.value : es_result.value[i] = "{col}" }) = 2

(***************************************************************************)
(* C11: MssqlEngineSpec.extract_error_message returns a string that starts *)
(* with "mssql error: "; when the text of the exception starts with        *)
(* "(8155," the rest is the advice that all SQL functions need an alias,   *)
(* otherwise the rest is the message extracted from the exception.         *)
(***************************************************************************)
C11_ExtractErrorMessage ==
    es_call.method = "extract_error_message" =>
        LET prefix == <<"m","s","s","q","l"," ","e","r","r","o","r",":"," ">>
            text == es_call.ex.text
            rest == SubSeq(es_result.value, Len(prefix) + 1, Len(es_result.value))
        IN  /\ ~es_result.none
            /\ startswith(es_result.value, prefix)
            /\ IF Len(text) >= 6 /\ SubSeq(text, 1, 6) = <<"(","8","1","5","5",",">>
               THEN rest = alias_advice
               ELSE rest = _extract_error_message(es_call.ex)

\* an exception of error 8155 that has a message of its own got the advice
C11_Witness ==
    /\ es_call.method = "extract_error_message"
    /\ es_call.cls = "AzureSynapseSpec"
    /\ startswith(es_call.ex.text, <<"(","8","1","5","5",",">>)
    /\ es_call.ex.message # <<>>
    /\ es_result.value = <<"m","s","s","q","l"," ","e","r","r","o","r",":"," ">>
                            \o alias_advice

(***************************************************************************)
(* C12: a connection error is classified as an invalid hostname only when  *)
(* its text says the server "is unavailable or does not exist (<host>)"    *)
(* and no "Net-Lib error" follows the host; a text that carries the        *)
(* connection-refused (61) or the timed-out (60) Net-Lib error is never    *)
(* classified as an invalid hostname.                                      *)
(***************************************************************************)
C12_NetLibErrorNeverInvalidHostname ==
    (/\ es_call.method = "extract_errors"
     /\ es_result.value.error_type = "CONNECTION_INVALID_HOSTNAME_ERROR")
        => LET text == es_call.text
               net_lib == find_all(text,
                              <<"N","e","t","-","L","i","b"," ","e","r","r","o","r">>)
           IN  /\ \E s \in find_all(text, unavailable_or_does_not_exist) :
                      \A p \in net_lib : p < s
               /\ ~CONNECTION_PORT_CLOSED_REGEX(text)
               /\ ~CONNECTION_HOST_DOWN_REGEX(text)

(***************************************************************************)
(* C14: CSV_TO_HIVE_UPLOAD_DIRECTORY_FUNC returns a path that ends with a  *)
(* slash for every database id and every schema; for a schema that is None *)
(* or empty the path is the upload directory, the database id and a slash. *)
(***************************************************************************)
C14_UploadDirectoryEndsWithSlash ==
    es_call.method = "CSV_TO_HIVE_UPLOAD_DIRECTORY_FUNC" =>
        LET path == es_result.value
        IN  /\ Len(path) > 0
            /\ path[Len(path)] = "/"
            /\ (es_call.schema.none \/ es_call.schema.value = <<>>)
                  => path = CSV_TO_HIVE_UPLOAD_DIRECTORY
                               \o str(es_call.database_id) \o <<"/">>

\* a schema without a slash at its end, after a two-digit id
C14_Witness ==
    /\ es_call.method = "CSV_TO_HIVE_UPLOAD_DIRECTORY_FUNC"
    /\ es_call.database_id = 42
    /\ es_call.schema = [none |-> FALSE, value |-> <<"m","a","i","n">>]
    /\ es_result.value = CSV_TO_HIVE_UPLOAD_DIRECTORY
                            \o <<"4","2","/","m","a","i","n","/">>

(***************************************************************************)
(* C13: unless the override file assigns SECRET_KEY, SECRET_KEY is the     *)
(* value of the environment variable SUPERSET_SECRET_KEY when that is set  *)
(* to a non-empty string, and the CHANGE_ME placeholder when it is unset   *)
(* or empty.                                                               *)
(***************************************************************************)
C13_SecretKeyFromEnvOrPlaceholder ==
    (/\ cfg_pc \in {"defaults", "loaded", "app"}
     /\ SECRET_KEY \notin DOMAIN override_conf)
        => cfg[SECRET_KEY] =
              IF SUPERSET_SECRET_KEY \in DOMAIN environ
              THEN IF environ[SUPERSET_SECRET_KEY] = ""
                   THEN pyval("CHANGE_ME_TO_A_COMPLEX_RANDOM_SECRET")
                   ELSE pyval(environ[SUPERSET_SECRET_KEY])
              ELSE pyval("CHANGE_ME_TO_A_COMPLEX_RANDOM_SECRET")

\* the variable is set to the empty string, an override file that assigns
\* another setting is loaded, and the key is the placeholder
C13_Witness ==
    /\ cfg_pc = "loaded"
    /\ SUPERSET_SECRET_KEY \in DOMAIN environ
    /\ environ[SUPERSET_SECRET_KEY] = ""
    /\ DOMAIN override_conf = {TALISMAN_ENABLED}
    /\ cfg[TALISMAN_ENABLED] = pybool(TRUE)
    /\ cfg[SECRET_KEY] = pyval(CHANGE_ME_SECRET_KEY)

(***************************************************************************)
(* C15: VERSION_STRING is the version read from version_info.json when     *)
(* that file can be read and holds a non-empty version, otherwise the      *)
(* version read from package.json, otherwise None; a missing, unreadable   *)
(* or malformed file never makes the load of the config fail.              *)
(***************************************************************************)
C15_VersionStringWithFallback ==
    /\ cfg_pc = "failed" => override_raises
    /\ cfg_pc # "start" =>
          LET info == files[VERSION_INFO_FILE]
              package == files[PACKAGE_JSON_FILE]
          IN  /\ VERSION_STRING \in DOMAIN cfg
              /\ cfg[VERSION_STRING] =
                    IF info.kind = "object" /\ info.version \notin {pynone, pyval("")}
                    THEN info.version
                    ELSE IF package.kind = "object" THEN package.version
                    ELSE pynone

\* version_info.json is missing and package.json holds a version
C15_Witness ==
    /\ cfg_pc = "loaded"
    /\ files[VERSION_INFO_FILE].kind = "missing"
    /\ files[PACKAGE_JSON_FILE].kind = "object"
    /\ cfg[VERSION_STRING] = pyval("0.0.0-dev")

(***************************************************************************)
(* C17: when no override file assigns it, TALISMAN_ENABLED after the load  *)
(* of the config is the environment variable TALISMAN_ENABLED cast to a    *)
(* boolean, and true when the variable is unset.                           *)
(***************************************************************************)
C17_TalismanEnabledFromEnv ==
    (/\ ConfigLoaded
     /\ TALISMAN_ENABLED \notin DOMAIN override_conf)
        => cfg[TALISMAN_ENABLED] =
              IF TALISMAN_ENABLED \in DOMAIN environ
              THEN pybool(cast_to_boolean(environ[TALISMAN_ENABLED]))
              ELSE pybool(TRUE)

(***************************************************************************)
(* C16: between two consecutive status polls of handle_cursor there is     *)
(* exactly one sleep; it lasts the DB_POLL_INTERVAL_SECONDS entry for      *)
(* "impala" when there is one, and 5 seconds when there is none.           *)
(***************************************************************************)
C16_OneSleepBetweenPolls ==
    \A i, j \in DOMAIN calls :
        (/\ i < j
         /\ calls[i].op = "status"
         /\ calls[j].op = "status"
         /\ \A k \in (i + 1)..(j - 1) : calls[k].op # "status")
            => LET sleeps == { k \in (i + 1)..(j - 1) : calls[k].op = "sleep" }
               IN  /\ Cardinality(sleeps) = 1
                   /\ \A k \in sleeps :
                         calls[k].secs =
                            IF "impala" \in DOMAIN db_poll_interval
                            THEN db_poll_interval["impala"]
                            ELSE 5

\* three polls with the interval of impala set to one second
C16_Witness ==
    /\ db_poll_interval = ("impala" :> 1)
    /\ NumCalls(calls, "status") = 3
    /\ NumCalls(calls, "sleep") = 2
    /\ \A k \in DOMAIN calls : calls[k].op = "sleep" => calls[k].secs = 1

(***************************************************************************)
(* C18: across the polls of handle_cursor the stored progress of the query *)
(* never decreases: query.progress is written only with a parsed           *)
(* percentage greater than its value, and a log that reports a lower or    *)
(* the same percentage leaves it as it is.                                 *)
(***************************************************************************)
C18_ProgressNeverDecreases ==
    [][/\ db_query'.progress >= db_query.progress
       /\ query'.progress # query.progress
             => /\ query'.progress > query.progress
                /\ progress' = <<query'.progress>>
       /\ (progress' # <<>> /\ calls' # calls /\ progress'[1] <= query.progress)
             => /\ query'.progress = query.progress
                /\ db_query'.progress = db_query.progress]_vars

\* the progress went from 0 to 50, and then a log reported 20
C18_Witness ==
    /\ db_query.progress = 50
    /\ query.progress = 50
    /\ progress = <<20>>
    /\ NumCalls(calls, "commit") = 1
    /\ hc_pc = "status"
====
